---------------------------- MODULE Spec2Model ----------------------------
(***************************************************************************)
(* A model of the cloudtrie pipeline: the Decision Trie (detecttrie.py),   *)
(* its builder (step3_build_detecttrie.py) and classifier                  *)
(* (step4_detect.py), the Evidence Trie and its PO-pair extractor          *)
(* (iptrie.py), the live-table ingestion loop and the three-source build   *)
(* (build_iptrie.py), the cloud-model scoring (cloud_uncertainty.py,       *)
(* step2_cloud_uncertainty.py) and the save and load of the Decision Trie. *)
(*                                                                         *)
(* Tries are modelled as functions from the bit path of a node to the      *)
(* node's payload; the domain is the set of nodes that were created, so    *)
(* node.children[bit] is None exactly when the path extended by bit is not *)
(* in the domain.  Python dicts are functions whose DOMAIN is the key set. *)
(* ASNs that reach the classifier or the ingestion loop as text are        *)
(* strings converted by int_of, which fails on non-numeric text.           *)
(***************************************************************************)
EXTENDS Integers, Sequences, FiniteSets, TLC

VARIABLES
    dt_root,        \* DetectTrie.root: bit path -> source_as_set
    conflict_log,   \* DetectTrie.conflict_log: prefix -> set of ASNs
    dt_calls,       \* history: the (prefix, origin) of every insert call made
    dt_scores,      \* the scores list last given to build_detecttrie_from_scores
    dt_inserted,    \* the count returned by build_detecttrie_from_scores
    dt_verdict,     \* <<>> or <<[update, status]>>: the last classify_update
    ip_root,        \* IPTrie.root: bit path -> TrieNode
    ip_log,         \* history: the arguments of every IPTrie.insert call made
    ing_rows,       \* the decoded rows last given to build_trie_from_ribs
    ing_total,      \* total_prefixes of build_trie_from_ribs
    ing_pairs,      \* "none", or how collect_po_pairs ended in step 1
    rd_sources,     \* <<>> or <<the sources given to build_iptrie_from_real_data>>
    rd_status,      \* "none", "returned" or "raised": how that call ended
    det_updates,    \* the updates list read by step 4's main
    det_lines,      \* the status step 4's main printed for each update
    det_hijack_events,  \* <<>> or <<the hijack_events total main printed>>
    sc_run,         \* <<>> or <<[po_pairs, cloud_params, n_sim, seed]>>: a scoring run
    sc_scored,      \* the scored list compute_uncertainty_for_trie returned
    dt_file,        \* <<>>, or the content of the file DetectTrie.save wrote
    dt_saved,       \* history: <<>> or <<the DetectTrie as it was when saved>>
    ld_trie         \* <<>> or <<the DetectTrie that DetectTrie.load returned>>

dt_vars == <<dt_root, conflict_log, dt_calls, dt_scores, dt_inserted, dt_verdict>>

ip_vars == <<ip_root, ip_log>>

ing_vars == <<ing_rows, ing_total, ing_pairs>>

rd_vars == <<rd_sources, rd_status>>

\* the variables of the runs that no trie operation touches
det_vars == <<det_updates, det_lines, det_hijack_events>>

sc_vars == <<sc_run, sc_scored>>

pst_vars == <<dt_file, dt_saved, ld_trie>>

run_vars == <<rd_vars, det_vars, sc_vars, pst_vars>>

vars == <<dt_vars, ip_vars, ing_vars, run_vars>>

---------------------------------------------------------------------------
(* Bounds and input sets *)

\* longest prefix, in bits, handled by the Decision Trie runs (the address
\* width net.max_prefixlen of ip_prefix_to_bits is scaled down to it)
MaxLen == 1

\* most insert calls made on one DetectTrie
MaxInserts == 2

\* longest scores list given to build_detecttrie_from_scores
MaxScores == 2

Bit == {"0", "1"}

RECURSIVE BitStrings(_)
BitStrings(n) ==
    IF n = 0 THEN {<<>>}
    ELSE LET shorter == BitStrings(n - 1)
         IN  shorter \cup {Append(s, b) : s \in {t \in shorter : Len(t) = n - 1}, b \in Bit}

Paths == BitStrings(MaxLen)

Asns == {65001, 65002}

\* confidences and the threshold are 6-decimal figures, kept in hundredths
Confidences == {55, 60, 75}

\* the prefixes of the scored PO pairs: a covering prefix and a more specific
ScorePrefixes == {<<>>, <<"1">>}

ScoreItems == [prefix_bits : ScorePrefixes, origin : Asns, confidence : Confidences]

RECURSIVE SeqsUpTo(_, _)
SeqsUpTo(S, n) ==
    IF n = 0 THEN {<<>>}
    ELSE LET shorter == SeqsUpTo(S, n - 1)
         IN  shorter \cup {Append(s, x) : s \in {t \in shorter : Len(t) = n - 1}, x \in S}

\* announced origins as they arrive in the updates file
OriginTexts == {"65001", "65002", "AS65001"}

\* announced prefixes: a parsable prefix is its address and length, an
\* unparsable one has valid = FALSE
PrefixTexts ==
    [valid : {TRUE}, addr : 0 .. (2 ^ MaxLen - 1), len : 0 .. MaxLen]
        \cup {[valid |-> FALSE, addr |-> 0, len |-> 0]}

Updates == [prefix : PrefixTexts, origin : OriginTexts]

\* most IPTrie.insert calls in an Evidence Trie run
MaxEvidence == 2

\* most IPTrie.insert calls in a run of dated observations
MaxDated == 3

\* most IPTrie.insert calls in a run over the source kinds
MaxSources == 3

\* longest bit string given to IPTrie.search
MaxQueryLen == 2

\* the arguments of IPTrie.insert; an absent date is <<>>, an absent peer ""
EvidenceInputs ==
    [ip_prefix : {<<"1">>, <<"1", "0">>}, source_as : {"65001", "65002"},
     source : {"RIB", "IRR"}, announced : BOOLEAN,
     date : {<<>>, <<739067>>}, peer_as : {"", "p1"}]

\* 2024-06-25, 2024-06-30, 2024-07-06, 2024-07-11 and 2024-07-16
DatedInputs ==
    [ip_prefix : {<<"1">>}, source_as : {"65001"},
     source : {"RIB", "IRR"}, announced : BOOLEAN,
     date : {<<739062>>, <<739067>>, <<739073>>, <<739078>>, <<739083>>},
     peer_as : {""}]

SourceInputs ==
    [ip_prefix : {<<"1">>}, source_as : {"65001", "65002"},
     source : {"RIB", "IRR", "RPKI"}, announced : BOOLEAN,
     date : {<<>>, <<739071>>}, peer_as : {""}]

\* most decoded rows of the live-table file given to build_trie_from_ribs
MaxRows == 2

\* the prefix column of a decoded row: an IPv4 prefix, an IPv6 prefix, and
\* text that is no prefix
RibPrefixTexts ==
    {[valid |-> TRUE, version |-> 4, addr |-> 2 ^ MaxLen - 1, len |-> MaxLen],
     [valid |-> TRUE, version |-> 6, addr |-> 0, len |-> 0],
     [valid |-> FALSE, version |-> 4, addr |-> 0, len |-> 0]}

\* the as-path column, as its whitespace-separated words: empty, "-", paths
\* that end in an AS number, and a path that ends in an AS set
AsPaths ==
    {<<>>, <<"-">>, <<"64500", "65001">>, <<"64500", "AS65002">>,
     <<"64500", "{65001,65002}">>}

RibRows == [prefix : RibPrefixTexts, as_path : AsPaths, peer_asn : {"64500"}]

\* longest updates list read by step 4's main
MaxUpdates == 2

\* the updates of a classifier run: the all-zero prefix of length 0 with
\* each origin text, a prefix of length 1 and an unparsable prefix
DetectUpdates ==
    {[prefix |-> [valid |-> TRUE, addr |-> 0, len |-> 0], origin |-> o] : o \in OriginTexts}
        \cup {[prefix |-> [valid |-> TRUE, addr |-> 2 ^ MaxLen - 1, len |-> 1],
               origin |-> "65001"],
              [prefix |-> [valid |-> FALSE, addr |-> 0, len |-> 0], origin |-> "65001"]}

\* most files in the attestation directory and in the registry directory
MaxFiles == 2

\* the live-table file as build_iptrie_from_real_data finds it: whether the
\* argument is given, the file exists, its name ends in .gz, gzip can read
\* it and the decoder succeeds on it
RibFiles ==
    {f \in [given : BOOLEAN, exists : BOOLEAN, gz : BOOLEAN,
            gunzips : BOOLEAN, decodes : BOOLEAN] :
        /\ f.exists => f.given
        /\ f.gz => f.exists
        /\ f.gunzips => f.gz
        /\ f.decodes => f.exists /\ (f.gz => f.gunzips)}

\* the decoded rows and the file-name date (2024-07-01) of a live-table file
RibFileRows ==
    <<[prefix |-> [valid |-> TRUE, version |-> 4, addr |-> 2 ^ MaxLen - 1, len |-> MaxLen],
       as_path |-> <<"64500", "65001">>, peer_asn |-> "64500"]>>

RibFileDate == <<739068>>

\* the rows of an attestation file: one sound row, or one with an
\* unparsable prefix
RoaRows ==
    {[ip_prefix |-> [valid |-> TRUE, version |-> 4, addr |-> 0, len |-> MaxLen],
      asn |-> "AS65002"],
     [ip_prefix |-> [valid |-> FALSE, version |-> 4, addr |-> 0, len |-> 0],
      asn |-> "AS65002"]}

\* an attestation file: the date of its name (<<>> when it has none),
\* whether it can be read, and its rows
RoaFiles ==
    {[date |-> <<>>, reads |-> TRUE, rows |-> <<>>],
     [date |-> <<739069>>, reads |-> FALSE, rows |-> <<>>]}
        \cup {[date |-> <<739069>>, reads |-> TRUE, rows |-> <<r>>] : r \in RoaRows}

\* a directory argument: given or not, existing or not, and its files
Dirs(files) ==
    {[given |-> FALSE, exists |-> FALSE, files |-> <<>>],
     [given |-> TRUE, exists |-> FALSE, files |-> <<>>]}
        \cup {[given |-> TRUE, exists |-> TRUE, files |-> fs] :
                 fs \in SeqsUpTo(files, MaxFiles)}

\* the lines of a registry file: a route line and the origin line after it
IrrLines ==
    {<<[key |-> "route",
        prefix |-> [valid |-> TRUE, version |-> 4, addr |-> 0, len |-> 0], asn |-> ""],
       [key |-> "origin", prefix |-> [valid |-> FALSE, version |-> 4, addr |-> 0, len |-> 0],
        asn |-> a]>> : a \in {"AS65001", "AS65002"}}

\* an entry of the registry directory: whether it is a regular file, whether
\* it can be opened, whether the detected encoding is one the reader knows,
\* and its lines
IrrFiles ==
    {[is_file |-> FALSE, opens |-> FALSE, encoding_known |-> FALSE, lines |-> <<>>],
     [is_file |-> TRUE, opens |-> FALSE, encoding_known |-> FALSE, lines |-> <<>>],
     [is_file |-> TRUE, opens |-> TRUE, encoding_known |-> FALSE, lines |-> <<>>]}
        \cup {[is_file |-> TRUE, opens |-> TRUE, encoding_known |-> TRUE, lines |-> l] :
                 l \in IrrLines}

\* the arguments of build_iptrie_from_real_data and the files behind them
RealData == [rib_file : RibFiles, roa_dir : Dirs(RoaFiles), irr_dir : Dirs(IrrFiles)]

\* the orders in which a Python set of the elements of S can be iterated
Orders(S) ==
    {s \in [1 .. Cardinality(S) -> S] : \A i, j \in DOMAIN s : s[i] = s[j] => i = j}

\* most PO pairs in a scoring run
MaxPairs == 2

\* most simulations per dimension (n_sim) in a scoring run
MaxSim == 2

\* the consistency values of a PO pair, in hundredths
PoPairs ==
    [time_persistence : {40, 60}, space_consistency : {50, 70},
     source_consistency : {26, 62, 100}]

\* the Ex, En and He of one dimension, in hundredths; En = He = 0 is what
\* estimate_cloud_params gives for a population of fewer than 2 values,
\* before it raises En to the epsilon floor
Clouds(ex, en, he) == [Ex : ex, En : en, He : he]

CloudParams ==
    [time : Clouds({60}, {20}, {10}), space : Clouds({50}, {0}, {0}),
     membership : Clouds({62}, {0, 20}, {0, 10})]

Seeds == {0, 1, 2}

---------------------------------------------------------------------------
(* Conversions *)

\* int(text): ok = FALSE stands for the ValueError int() raises
int_of(text) ==
    CASE text = "65001" -> [ok |-> TRUE, val |-> 65001]
      [] text = "65002" -> [ok |-> TRUE, val |-> 65002]
      [] text = "65003" -> [ok |-> TRUE, val |-> 65003]
      [] OTHER -> [ok |-> FALSE, val |-> 0]

\* bin(n)[2:].zfill(width): the width-bit binary text of n, most significant
\* bit first
RECURSIVE to_bits(_, _)
to_bits(n, width) ==
    IF width = 0 THEN <<>>
    ELSE Append(to_bits(n \div 2, width - 1), IF n % 2 = 1 THEN "1" ELSE "0")

\* ip_prefix_to_bits: ip_network(prefix, strict=False) clears the host bits,
\* the bits of the network address are cut to the prefix length; ok = FALSE
\* stands for the ValueError of an unparsable prefix
ip_prefix_to_bits(prefix) ==
    IF ~prefix.valid THEN [ok |-> FALSE, bits |-> <<>>]
    ELSE LET host == 2 ^ (MaxLen - prefix.len)
             network_address == (prefix.addr \div host) * host
         IN  [ok |-> TRUE,
              bits |-> SubSeq(to_bits(network_address, MaxLen), 1, prefix.len)]

---------------------------------------------------------------------------
(* detecttrie.py *)

\* the nodes on the walk from the root to the node of binary_prefix
PathTo(binary_prefix) ==
    {SubSeq(binary_prefix, 1, k) : k \in 0 .. Len(binary_prefix)}

\* DetectTrie.__init__: a root with an empty source_as_set, an empty log
DetectTrie_init ==
    [root |-> [q \in {<<>>} |-> {}], conflict_log |-> [k \in {} |-> {}]]

\* a log_conflict that records the rejected origin only
log_conflict_new_only(log, prefix, existing_as, new_as) ==
    LET current == IF prefix \in DOMAIN log THEN log[prefix] ELSE {}
    IN  [k \in DOMAIN log \cup {prefix} |->
            IF k = prefix THEN current \cup {new_as} ELSE log[k]]

log_conflict(log, prefix, existing_as, new_as) ==
    LET current == IF prefix \in DOMAIN log THEN log[prefix] ELSE {}
    IN  [k \in DOMAIN log \cup {prefix} |->
            IF k = prefix THEN current \cup existing_as \cup {new_as} ELSE log[k]]

\* an insert that also authorises a conflicting origin
DetectTrie_insert_grows(dt, binary_prefix, source_as) ==
    LET walked == [q \in DOMAIN dt.root \cup PathTo(binary_prefix) |->
                      IF q \in DOMAIN dt.root THEN dt.root[q] ELSE {}]
        node == binary_prefix
    IN  [root |-> [walked EXCEPT ![node] = walked[node] \cup {source_as}],
         conflict_log |->
             IF walked[node] # {} /\ source_as \notin walked[node]
             THEN log_conflict(dt.conflict_log, binary_prefix, walked[node], source_as)
             ELSE dt.conflict_log]

DetectTrie_insert(dt, binary_prefix, source_as) ==
    LET walked == [q \in DOMAIN dt.root \cup PathTo(binary_prefix) |->
                      IF q \in DOMAIN dt.root THEN dt.root[q] ELSE {}]
        node == binary_prefix
    IN  IF walked[node] # {}
        THEN IF source_as \notin walked[node]
             THEN [root |-> walked,
                   conflict_log |->
                       log_conflict(dt.conflict_log, binary_prefix, walked[node], source_as)]
             ELSE [root |-> walked, conflict_log |-> dt.conflict_log]
        ELSE [root |-> [walked EXCEPT ![node] = {source_as}],
              conflict_log |-> dt.conflict_log]

\* a longest-match search: the set of the deepest node on the walk that has
\* one
DetectTrie_search_covering(root, binary_prefix) ==
    LET covering == {q \in PathTo(binary_prefix) : q \in DOMAIN root /\ root[q] # {}}
    IN  IF covering = {} THEN [found |-> FALSE, set |-> {}]
        ELSE [found |-> TRUE,
              set |-> root[CHOOSE q \in covering : \A r \in covering : Len(r) <= Len(q)]]

\* a search that returns the set of any node it reaches, empty or not
DetectTrie_search_any_node(root, binary_prefix) ==
    IF \E q \in PathTo(binary_prefix) : q \notin DOMAIN root
    THEN [found |-> FALSE, set |-> {}]
    ELSE [found |-> TRUE, set |-> root[binary_prefix]]

\* DetectTrie.search: found = FALSE stands for None
DetectTrie_search(root, binary_prefix) ==
    IF \E q \in PathTo(binary_prefix) : q \notin DOMAIN root
    THEN [found |-> FALSE, set |-> {}]
    ELSE IF root[binary_prefix] # {}
         THEN [found |-> TRUE, set |-> root[binary_prefix]]
         ELSE [found |-> FALSE, set |-> {}]

\* a dump that writes only the nodes that hold origins
RECURSIVE pickle_dump_holders(_, _)
pickle_dump_holders(root, path) ==
    (IF root[path] # {} THEN <<[path |-> path, source_as_set |-> root[path]]>> ELSE <<>>)
        \o (IF Append(path, "0") \in DOMAIN root
            THEN pickle_dump_holders(root, Append(path, "0")) ELSE <<>>)
        \o (IF Append(path, "1") \in DOMAIN root
            THEN pickle_dump_holders(root, Append(path, "1")) ELSE <<>>)

\* pickle.dump of the node at path: the node, then the subtree of its child
\* '0' and that of its child '1', where there is one
RECURSIVE pickle_dump(_, _)
pickle_dump(root, path) ==
    <<[path |-> path, source_as_set |-> root[path]]>>
        \o (IF Append(path, "0") \in DOMAIN root
            THEN pickle_dump(root, Append(path, "0")) ELSE <<>>)
        \o (IF Append(path, "1") \in DOMAIN root
            THEN pickle_dump(root, Append(path, "1")) ELSE <<>>)

\* pickle.load: the node tree of the dumped nodes
pickle_load(file) ==
    [q \in {file[i].path : i \in 1 .. Len(file)} |->
        (CHOOSE entry \in {file[i] : i \in 1 .. Len(file)} : entry.path = q).source_as_set]

\* DetectTrie.save: the file holds the pickled root and nothing else
DetectTrie_save(dt) == pickle_dump(dt.root, <<>>)

\* DetectTrie.load: a new DetectTrie whose root is the unpickled one
DetectTrie_load(file) == [DetectTrie_init EXCEPT !.root = pickle_load(file)]

---------------------------------------------------------------------------
(* step3_build_detecttrie.py *)

Threshold == 60

\* a loop that inserts only the items strictly above the threshold
RECURSIVE build_loop_strict(_, _, _, _)
build_loop_strict(scores, threshold, i, acc) ==
    IF i > Len(scores) THEN acc
    ELSE LET item == scores[i]
         IN  IF item.confidence > threshold
             THEN build_loop_strict(scores, threshold, i + 1,
                     [dt |-> DetectTrie_insert(acc.dt, item.prefix_bits, item.origin),
                      inserted |-> acc.inserted + 1,
                      calls |-> Append(acc.calls, <<item.prefix_bits, item.origin>>)])
             ELSE build_loop_strict(scores, threshold, i + 1, acc)

\* the loop of build_detecttrie_from_scores from item i on; calls collects
\* the insert calls the loop makes
RECURSIVE build_loop(_, _, _, _)
build_loop(scores, threshold, i, acc) ==
    IF i > Len(scores) THEN acc
    ELSE LET item == scores[i]
         IN  IF item.confidence >= threshold
             THEN build_loop(scores, threshold, i + 1,
                     [dt |-> DetectTrie_insert(acc.dt, item.prefix_bits, item.origin),
                      inserted |-> acc.inserted + 1,
                      calls |-> Append(acc.calls, <<item.prefix_bits, item.origin>>)])
             ELSE build_loop(scores, threshold, i + 1, acc)

build_detecttrie_from_scores(scores, threshold) ==
    build_loop(scores, threshold, 1,
               [dt |-> DetectTrie_init, inserted |-> 0, calls |-> <<>>])

---------------------------------------------------------------------------
(* step4_detect.py *)

\* classify_update: the status it returns, or "ValueError" when it raises
classify_update(root, prefix, origin_asn) ==
    LET bits == ip_prefix_to_bits(prefix)
    IN  IF ~bits.ok THEN "ValueError"
        ELSE LET legit_as_set == DetectTrie_search(root, bits.bits)
             IN  IF ~legit_as_set.found THEN "unknown_prefix"
                 ELSE LET asn == int_of(origin_asn)
                      IN  IF ~asn.ok THEN "ValueError"
                          ELSE IF asn.val \in legit_as_set.set THEN "legit"
                          ELSE "hijack"

\* a loop that a ValueError ends
RECURSIVE detect_loop_aborts(_, _, _, _)
detect_loop_aborts(root, updates, i, acc) ==
    IF i > Len(updates) THEN acc
    ELSE LET u == updates[i]
             status == classify_update(root, u.prefix, u.origin)
         IN  IF status = "ValueError" THEN acc
             ELSE detect_loop_aborts(root, updates, i + 1,
                     [lines |-> Append(acc.lines, status),
                      hijacks |-> IF status = "hijack"
                                  THEN Append(acc.hijacks,
                                              [prefix |-> u.prefix,
                                               origin |-> int_of(u.origin).val])
                                  ELSE acc.hijacks])

\* the loop of main over the updates, from update i on: lines collects the
\* status printed for each update, "error" when the try block raised
RECURSIVE detect_loop(_, _, _, _)
detect_loop(root, updates, i, acc) ==
    IF i > Len(updates) THEN acc
    ELSE LET u == updates[i]
             status == classify_update(root, u.prefix, u.origin)
         IN  IF status = "ValueError"
             THEN detect_loop(root, updates, i + 1,
                              [acc EXCEPT !.lines = Append(@, "error")])
             ELSE detect_loop(root, updates, i + 1,
                     [lines |-> Append(acc.lines, status),
                      hijacks |-> IF status = "hijack"
                                  THEN Append(acc.hijacks,
                                              [prefix |-> u.prefix,
                                               origin |-> int_of(u.origin).val])
                                  ELSE acc.hijacks])

---------------------------------------------------------------------------
(* iptrie.py *)

\* datetime.date(2024, 7, 1); dates are proleptic Gregorian ordinals
StartDate == 739068

\* an absent date (None) is <<>>, a date d is <<d>>
NoDate == <<>>

\* an absent peer: None and "" are both false in "if peer_as"
NoPeer == ""

\* a remainder that keeps the sign of the dividend
trunc_mod(a, n) == IF a >= 0 THEN a % n ELSE -((-a) % n)

\* Python's a % n for n > 0: the remainder of the floored division, as is
\* the % of TLA+
py_mod(a, n) == a % n

default_list == <<0, 0, 0, 0, 0>>

EmptyDict == [k \in {} |-> default_list]

\* d[k] = v on a dict
dict_set(d, k, v) == [x \in DOMAIN d \cup {k} |-> IF x = k THEN v ELSE d[x]]

\* d[k] on a defaultdict whose factory gives default
dict_get(d, k, default) == IF k \in DOMAIN d THEN d[k] ELSE default

\* TrieNode.__init__; order is the insertion order of the keys of sources
TrieNode_init ==
    [is_end_of_prefix |-> FALSE, order |-> <<>>, sources |-> EmptyDict, peers |-> EmptyDict]

\* an update that starts the day list of the kind afresh
update_source_resets(node, source_as, source, announced, date, peer_as) ==
    LET day == (IF date = <<>> THEN 0 ELSE date[1] - 739068) % 5
        kinds == dict_get(node.sources, source_as, EmptyDict)
        seen_by == dict_get(node.peers, source_as, EmptyDict)
        seen == dict_get(seen_by, peer_as, default_list)
    IN  [node EXCEPT
           !.order = IF source_as \in DOMAIN node.sources
                     THEN node.order ELSE Append(node.order, source_as),
           !.sources = dict_set(node.sources, source_as,
                                dict_set(kinds, source,
                                         [default_list EXCEPT
                                             ![day + 1] = IF announced THEN 1 ELSE 0])),
           !.peers = IF peer_as # ""
                     THEN dict_set(node.peers, source_as,
                                   dict_set(seen_by, peer_as, [seen EXCEPT ![day + 1] = 1]))
                     ELSE node.peers]

\* an update that counts the announcements of a day
update_source_counts(node, source_as, source, announced, date, peer_as) ==
    LET day == (IF date = <<>> THEN 0 ELSE date[1] - 739068) % 5
        kinds == dict_get(node.sources, source_as, EmptyDict)
        days == dict_get(kinds, source, default_list)
        seen_by == dict_get(node.peers, source_as, EmptyDict)
        seen == dict_get(seen_by, peer_as, default_list)
    IN  [node EXCEPT
           !.order = IF source_as \in DOMAIN node.sources
                     THEN node.order ELSE Append(node.order, source_as),
           !.sources = dict_set(node.sources, source_as,
                                dict_set(kinds, source,
                                         [days EXCEPT
                                             ![day + 1] = IF announced THEN @ + 1 ELSE 0])),
           !.peers = IF peer_as # ""
                     THEN dict_set(node.peers, source_as,
                                   dict_set(seen_by, peer_as, [seen EXCEPT ![day + 1] = 1]))
                     ELSE node.peers]

\* an update that never clears a day: the cell is the maximum of what it
\* held and the new flag
update_source_sticky(node, source_as, source, announced, date, peer_as) ==
    LET day == (IF date = <<>> THEN 0 ELSE date[1] - 739068) % 5
        kinds == dict_get(node.sources, source_as, EmptyDict)
        days == dict_get(kinds, source, default_list)
        seen_by == dict_get(node.peers, source_as, EmptyDict)
        seen == dict_get(seen_by, peer_as, default_list)
    IN  [node EXCEPT
           !.order = IF source_as \in DOMAIN node.sources
                     THEN node.order ELSE Append(node.order, source_as),
           !.sources = dict_set(node.sources, source_as,
                                dict_set(kinds, source,
                                         [days EXCEPT
                                             ![day + 1] = IF announced THEN 1 ELSE @])),
           !.peers = IF peer_as # ""
                     THEN dict_set(node.peers, source_as,
                                   dict_set(seen_by, peer_as, [seen EXCEPT ![day + 1] = 1]))
                     ELSE node.peers]

get_day_from_date(date) == IF date = NoDate THEN 0 ELSE date[1] - StartDate

update_source(node, source_as, source, announced, date, peer_as) ==
    LET day == py_mod(get_day_from_date(date), 5)
    IN  IF 0 <= day /\ day < 5
        THEN LET kinds == dict_get(node.sources, source_as, EmptyDict)
                 days == dict_get(kinds, source, default_list)
                 marked == [days EXCEPT ![day + 1] = IF announced THEN 1 ELSE 0]
                 seen_by == dict_get(node.peers, source_as, EmptyDict)
                 seen == dict_get(seen_by, peer_as, default_list)
             IN  [node EXCEPT
                    !.order = IF source_as \in DOMAIN node.sources
                              THEN node.order ELSE Append(node.order, source_as),
                    !.sources = dict_set(node.sources, source_as,
                                         dict_set(kinds, source, marked)),
                    !.peers = IF peer_as # NoPeer
                              THEN dict_set(node.peers, source_as,
                                            dict_set(seen_by, peer_as,
                                                     [seen EXCEPT ![day + 1] = 1]))
                              ELSE node.peers]
        ELSE node

\* IPTrie.__init__
IPTrie_init == [q \in {<<>>} |-> TrieNode_init]

IPTrie_insert(root, ip_prefix, source_as, source, announced, date, peer_as) ==
    LET walked == [q \in DOMAIN root \cup PathTo(ip_prefix) |->
                      IF q \in DOMAIN root THEN root[q] ELSE TrieNode_init]
        node == [walked[ip_prefix] EXCEPT !.is_end_of_prefix = TRUE]
    IN  [walked EXCEPT ![ip_prefix] =
            update_source(node, source_as, source, announced, date, peer_as)]

\* a search that returns any node it reaches, terminal or not
IPTrie_search_any_node(root, ip) ==
    IF \E q \in PathTo(ip) : q \notin DOMAIN root
    THEN [found |-> FALSE, sources |-> EmptyDict, peers |-> EmptyDict]
    ELSE [found |-> TRUE, sources |-> root[ip].sources, peers |-> root[ip].peers]

\* IPTrie.search: found = FALSE stands for None
IPTrie_search(root, ip) ==
    IF \E q \in PathTo(ip) : q \notin DOMAIN root
    THEN [found |-> FALSE, sources |-> EmptyDict, peers |-> EmptyDict]
    ELSE IF root[ip].is_end_of_prefix
         THEN [found |-> TRUE, sources |-> root[ip].sources, peers |-> root[ip].peers]
         ELSE [found |-> FALSE, sources |-> EmptyDict, peers |-> EmptyDict]

\* IPTrie._dfs: the terminal nodes under prefix_bits, the node before its
\* children, the '0' child before the '1' child
RECURSIVE dfs(_, _)
dfs(root, prefix_bits) ==
    (IF root[prefix_bits].is_end_of_prefix THEN <<prefix_bits>> ELSE <<>>)
        \o (IF Append(prefix_bits, "0") \in DOMAIN root
            THEN dfs(root, Append(prefix_bits, "0")) ELSE <<>>)
        \o (IF Append(prefix_bits, "1") \in DOMAIN root
            THEN dfs(root, Append(prefix_bits, "1")) ELSE <<>>)

iter_prefix_nodes(root) == dfs(root, <<>>)

\* sum(f[x] for x in S)
RECURSIVE SumOver(_, _)
SumOver(S, f) ==
    IF S = {} THEN 0
    ELSE LET x == CHOOSE y \in S : TRUE IN f[x] + SumOver(S \ {x}, f)

\* str.upper()
upper(text) ==
    CASE text = "rib" -> "RIB"
      [] text = "irr" -> "IRR"
      [] text = "rpki" -> "RPKI"
      [] OTHER -> text

\* weights that count the registry and the attestation kinds alike
source_weight_flat(s) ==
    CASE s = "RIB" -> 26
      [] s = "IRR" -> 37
      [] s = "RPKI" -> 37
      [] OTHER -> 0

\* SOURCE_WEIGHTS.get(s, 0), in hundredths: the float sums of 0.26, 0.36 and
\* 0.38 are the exact two-decimal figures in every order of summation
source_weight(s) ==
    CASE s = "RIB" -> 26
      [] s = "IRR" -> 36
      [] s = "RPKI" -> 38
      [] OTHER -> 0

\* math.exp(-i / 2) for day i, in thousandths
time_weight(i) ==
    CASE i = 0 -> 1000
      [] i = 1 -> 607
      [] i = 2 -> 368
      [] i = 3 -> 223
      [] OTHER -> 135

\* math.log1p(n), in thousandths, for the peer counts of the model
log1p(n) ==
    CASE n = 0 -> 0
      [] n = 1 -> 693
      [] n = 2 -> 1099
      [] n = 3 -> 1386
      [] OTHER -> 1609

\* the dict appended to po_list for one origin of one terminal node
po_pair(prefix_bits, node, origin_asn) ==
    LET sources_dict == node.sources[origin_asn]
        sources == DOMAIN sources_dict
        time_vectors == [d \in 1 .. 5 |->
                            Cardinality({k \in sources : sources_dict[k][d] # 0})]
        rib_days == [d \in 1 .. 5 |->
                        IF \E k \in sources : sources_dict[k][d] # 0 /\ upper(k) = "RIB"
                        THEN 1 ELSE 0]
        time_sum == SumOver(1 .. 5, time_vectors)
        time_persistence ==
            IF time_sum > 0
            THEN SumOver(1 .. 5, [d \in 1 .. 5 |-> time_vectors[d] * time_weight(d - 1)])
                     \div time_sum
            ELSE 0
        peers_dict == dict_get(node.peers, origin_asn, EmptyDict)
        peer_count == Cardinality(DOMAIN peers_dict)
        sources_upper == {upper(k) : k \in sources}
        has_rib == "RIB" \in sources_upper /\ (\E d \in 1 .. 5 : rib_days[d] # 0)
    IN  [prefix_bits |-> prefix_bits,
         origin |-> int_of(origin_asn).val,
         sources |-> sources_upper,
         has_rib |-> has_rib,
         peer_count |-> peer_count,
         time_vectors |-> time_vectors,
         time_persistence |-> time_persistence,
         space_consistency |-> log1p(peer_count),
         source_consistency |->
             SumOver(sources_upper, [s \in sources_upper |-> source_weight(s)])]

RECURSIVE Concat(_)
Concat(seqs) == IF seqs = <<>> THEN <<>> ELSE Head(seqs) \o Concat(Tail(seqs))

\* IPTrie.collect_po_pairs: ok = FALSE stands for the ValueError that
\* int(origin_asn) raises on a non-numeric key of node.sources
collect_po_pairs(root) ==
    LET nodes == iter_prefix_nodes(root)
        per_node == [i \in 1 .. Len(nodes) |->
                        [j \in 1 .. Len(root[nodes[i]].order) |->
                            [prefix_bits |-> nodes[i], origin_asn |-> root[nodes[i]].order[j]]]]
        keys == Concat(per_node)
    IN  IF \E i \in 1 .. Len(keys) : ~int_of(keys[i].origin_asn).ok
        THEN [ok |-> FALSE, po_list |-> <<>>]
        ELSE [ok |-> TRUE,
              po_list |-> [i \in 1 .. Len(keys) |->
                              po_pair(keys[i].prefix_bits, root[keys[i].prefix_bits],
                                      keys[i].origin_asn)]]

---------------------------------------------------------------------------
(* build_iptrie.py *)

\* re.sub(r'^AS', '', str(asn))
normalize_asn(asn) ==
    CASE asn = "AS65001" -> "65001"
      [] asn = "AS65002" -> "65002"
      [] OTHER -> asn

\* the network address bits of an IPv4 network, cut to the prefix length
packed_bits(prefix) ==
    LET host == 2 ^ (MaxLen - prefix.len)
        network_address == (prefix.addr \div host) * host
    IN  SubSeq(to_bits(network_address, MaxLen), 1, prefix.len)

\* the loop over the rows of one file in build_trie_from_ribs, from row i
\* on; calls collects the arguments of the trie.insert calls it makes
RECURSIVE rib_loop(_, _, _, _)
rib_loop(rows, date_from_file, i, acc) ==
    IF i > Len(rows) THEN acc
    ELSE LET row == rows[i]
             as_path == row.as_path
             source_as == IF as_path # <<>> /\ as_path # <<"-">>
                          THEN <<as_path[Len(as_path)]>> ELSE <<>>
         IN  IF source_as # <<>> /\ row.prefix.valid /\ row.prefix.version = 4
             THEN LET a == [ip_prefix |-> packed_bits(row.prefix),
                            source_as |-> normalize_asn(source_as[1]),
                            source |-> "RIB", announced |-> TRUE,
                            date |-> date_from_file, peer_as |-> row.peer_asn]
                  IN  rib_loop(rows, date_from_file, i + 1,
                         [trie |-> IPTrie_insert(acc.trie, a.ip_prefix, a.source_as, a.source,
                                                 a.announced, a.date, a.peer_as),
                          total_prefixes |-> acc.total_prefixes + 1,
                          calls |-> Append(acc.calls, a)])
             ELSE rib_loop(rows, date_from_file, i + 1, acc)

\* build_trie_from_ribs on one file whose decoded rows are rows
build_trie_from_ribs(rows, date_from_file, trie) ==
    IF Len(rows) = 0 THEN [trie |-> trie, total_prefixes |-> 0, calls |-> <<>>]
    ELSE rib_loop(rows, date_from_file, 1,
                  [trie |-> trie, total_prefixes |-> 0, calls |-> <<>>])

\* load_ribs_to_df: the decoded rows, or None (ok = FALSE) when the decoder
\* fails on the file
load_ribs_to_df(file) ==
    [ok |-> file.decodes, rows |-> IF file.decodes THEN RibFileRows ELSE <<>>]

\* load_single_rib_file; raised tells that an exception left the function
load_single_rib_file(file) ==
    LET decoded == load_ribs_to_df(file)
        result == build_trie_from_ribs(IF decoded.ok THEN decoded.rows ELSE <<>>,
                                       RibFileDate, IPTrie_init)
    IN  IF file.gz /\ ~file.gunzips
        THEN [raised |-> TRUE, trie |-> IPTrie_init, calls |-> <<>>]
        ELSE [raised |-> FALSE, trie |-> result.trie, calls |-> result.calls]

\* the loop over the rows of one attestation file, from row i on
RECURSIVE roa_loop(_, _, _, _)
roa_loop(rows, current_date, i, acc) ==
    IF i > Len(rows) THEN acc
    ELSE LET row == rows[i]
         IN  IF row.ip_prefix.valid /\ row.ip_prefix.version = 4
             THEN LET a == [ip_prefix |-> packed_bits(row.ip_prefix),
                            source_as |-> normalize_asn(row.asn),
                            source |-> "RPKI", announced |-> TRUE,
                            date |-> current_date, peer_as |-> NoPeer]
                  IN  roa_loop(rows, current_date, i + 1,
                         [trie |-> IPTrie_insert(acc.trie, a.ip_prefix, a.source_as, a.source,
                                                 a.announced, a.date, a.peer_as),
                          calls |-> Append(acc.calls, a)])
             ELSE roa_loop(rows, current_date, i + 1, acc)

\* the loop over the files in build_trie_from_roas, from file i on: a file
\* without a date in its name and a file that cannot be read are skipped
RECURSIVE roa_files_loop(_, _, _)
roa_files_loop(files, i, acc) ==
    IF i > Len(files) THEN acc
    ELSE LET file == files[i]
         IN  IF file.date = NoDate THEN roa_files_loop(files, i + 1, acc)
             ELSE IF ~file.reads THEN roa_files_loop(files, i + 1, acc)
             ELSE roa_files_loop(files, i + 1, roa_loop(file.rows, file.date, 1, acc))

build_trie_from_roas(files, trie, calls) ==
    LET built == roa_files_loop(files, 1, [trie |-> trie, calls |-> calls])
    IN  [raised |-> FALSE, trie |-> built.trie, calls |-> built.calls]

\* the scan of the lines of one registry file, from line i on
RECURSIVE irr_scan(_, _, _, _)
irr_scan(lines, i, current_prefix, po_pairs) ==
    IF i > Len(lines) THEN po_pairs
    ELSE LET line == lines[i]
         IN  IF line.key \in {"route", "route6"}
             THEN irr_scan(lines, i + 1, <<line.prefix>>, po_pairs)
             ELSE IF line.key = "origin" /\ current_prefix # <<>>
             THEN irr_scan(lines, i + 1, <<>>,
                           po_pairs \cup {<<current_prefix[1], upper(line.asn)>>})
             ELSE irr_scan(lines, i + 1, current_prefix, po_pairs)

\* the loop over the directory entries in build_trie_from_irr, from entry i
\* on: detect_file_encoding opens the file outside the try block, the read
\* that follows is inside it
RECURSIVE irr_files_loop(_, _, _)
irr_files_loop(files, i, po_pairs) ==
    IF i > Len(files) THEN [raised |-> FALSE, po_pairs |-> po_pairs]
    ELSE LET file == files[i]
         IN  IF ~file.is_file THEN irr_files_loop(files, i + 1, po_pairs)
             ELSE IF ~file.opens THEN [raised |-> TRUE, po_pairs |-> po_pairs]
             ELSE IF ~file.encoding_known THEN irr_files_loop(files, i + 1, po_pairs)
             ELSE irr_files_loop(files, i + 1, irr_scan(file.lines, 1, <<>>, po_pairs))

\* the PO pairs build_trie_from_irr collects from the entries
irr_po_pairs(files) == irr_files_loop(files, 1, {}).po_pairs

\* the loop over po_pairs in build_trie_from_irr, iterated in order
RECURSIVE irr_insert_loop(_, _, _)
irr_insert_loop(order, i, acc) ==
    IF i \notin DOMAIN order THEN acc
    ELSE LET prefix == order[i][1]
             asn == order[i][2]
         IN  IF prefix.valid
             THEN LET a == [ip_prefix |-> packed_bits(prefix),
                            source_as |-> normalize_asn(asn),
                            source |-> "IRR", announced |-> TRUE,
                            date |-> NoDate, peer_as |-> NoPeer]
                  IN  irr_insert_loop(order, i + 1,
                         [trie |-> IPTrie_insert(acc.trie, a.ip_prefix, a.source_as, a.source,
                                                 a.announced, a.date, a.peer_as),
                          calls |-> Append(acc.calls, a)])
             ELSE irr_insert_loop(order, i + 1, acc)

\* build_trie_from_irr; order is the iteration order of the set po_pairs
build_trie_from_irr(files, trie, calls, order) ==
    LET scanned == irr_files_loop(files, 1, {})
        built == irr_insert_loop(order, 1, [trie |-> trie, calls |-> calls])
    IN  IF scanned.raised THEN [raised |-> TRUE, trie |-> trie, calls |-> calls]
        ELSE [raised |-> FALSE, trie |-> built.trie, calls |-> built.calls]

\* build_iptrie_from_real_data: the three sources one after the other, with
\* no handler around any of them
build_iptrie_from_real_data(sources, order) ==
    LET rib_file == sources.rib_file
        roa_dir == sources.roa_dir
        irr_dir == sources.irr_dir
        start == [raised |-> FALSE, trie |-> IPTrie_init, calls |-> <<>>]
        after_rib == IF rib_file.given /\ rib_file.exists
                     THEN load_single_rib_file(rib_file) ELSE start
        after_roa == IF after_rib.raised THEN after_rib
                     ELSE IF roa_dir.given /\ roa_dir.exists /\ roa_dir.files # <<>>
                     THEN build_trie_from_roas(roa_dir.files, after_rib.trie, after_rib.calls)
                     ELSE after_rib
    IN  IF after_roa.raised THEN after_roa
        ELSE IF irr_dir.given /\ irr_dir.exists
        THEN build_trie_from_irr(irr_dir.files, after_roa.trie, after_roa.calls, order)
        ELSE after_roa

---------------------------------------------------------------------------
(* Floating point *)

\* The membership degrees and the uncertainties are floats between 0 and 1.
\* A float is kept as a count of 2^-FracBits, and holds Precision
\* significant bits (the 53 of a double scaled down): an operation gives the
\* representable value nearest to its exact result, ties to even.
FracBits == 6

Precision == 4

\* the float 1.0
One == 2 ^ FracBits

\* the quotient num / den to the nearest integer, ties to even
round_half_even(num, den) ==
    LET q == num \div den
        r == num % den
    IN  IF 2 * r < den THEN q
        ELSE IF 2 * r > den THEN q + 1
        ELSE IF q % 2 = 0 THEN q ELSE q + 1

\* the gap between the representable values at n
RECURSIVE ulp(_)
ulp(n) == IF n < 2 ^ Precision THEN 1 ELSE 2 * ulp(n \div 2)

\* the float nearest to num / den
fl(num, den) ==
    LET u == ulp(num \div den)
    IN  u * round_half_even(num, den * u)

\* exp(-q) for q >= 0 takes the representable value ExpSteps[j][2] when q
\* is at most ExpSteps[j][1] thousandths and above the next entry's bound:
\* the bounds are ln(1 / m) for the midpoints m of neighbouring values
ExpSteps ==
    <<<<4852, 1>>, <<3753, 2>>, <<3242, 3>>, <<2906, 4>>, <<2654, 5>>, <<2454, 6>>,
      <<2287, 7>>, <<2143, 8>>, <<2018, 9>>, <<1907, 10>>, <<1807, 11>>, <<1716, 12>>,
      <<1633, 13>>, <<1556, 14>>, <<1484, 15>>, <<1418, 16>>, <<1325, 18>>, <<1214, 20>>,
      <<1114, 22>>, <<1023, 24>>, <<940, 26>>, <<863, 28>>, <<791, 30>>, <<724, 32>>,
      <<632, 36>>, <<521, 40>>, <<421, 44>>, <<330, 48>>, <<246, 52>>, <<169, 56>>,
      <<98, 60>>, <<31, 64>>>>

\* math.exp(-(num / den)) for num >= 0 and den > 0
math_exp_neg(num, den) ==
    LET reached == {j \in DOMAIN ExpSteps : num * 1000 <= ExpSteps[j][1] * den}
    IN  IF reached = {} THEN 0
        ELSE ExpSteps[CHOOSE j \in reached : \A k \in reached : k <= j][2]

\* round(value, 6) of a float, with the 6 decimals scaled down to Decimals:
\* the figure is a count of 10^-Decimals, and Python rounds the exact value
\* of the float, ties to even
Decimals == 1

round_6(value) == round_half_even(value * 10 ^ Decimals, One)

\* the figure 1.0
OneFigure == 10 ^ Decimals

\* the standard normal deviates that random.Random(seed + 12345) yields,
\* in the order of the gauss calls, each to the nearest integer
GaussDeviates(seed) ==
    CASE seed = 0 ->
           <<0, 0, 0, -1, 0, 0, -1, 0, 1, 1, -1, 0, -1, 0, 0, 0, 1, 0, -1, 0, 0, -1, 0, 0,
             -1, 2, 2, 0, 2, 0, 1, -1, 0, 0, -2, 1>>
      [] seed = 1 ->
           <<-2, 0, -1, 1, 0, -1, 1, 0, -1, 0, 1, -1, -1, 0, 0, 1, -2, 1, 0, 1, 0, -2, 1, 1,
             0, 1, 0, 0, 1, 1, 0, 1, 2, -1, 0, 0>>
      [] seed = 2 ->
           <<-1, 1, -1, 0, 0, 1, -1, 2, 0, 0, 2, -1, 1, -1, 0, 1, 1, 1, 0, -1, -1, 1, 1, 0,
             -1, -1, 1, 1, 0, 1, 1, 0, 0, -1, 0, 0>>

\* random.Random(seed + 12345): the generator is the seed and the number of
\* gauss calls made on it
Random(seed) == [seed |-> seed, calls |-> 0]

\* rng.gauss(mu, sigma) = mu + z * sigma for the next deviate z
gauss(rng, mu, sigma) ==
    [value |-> mu + GaussDeviates(rng.seed)[rng.calls + 1] * sigma,
     rng |-> [rng EXCEPT !.calls = @ + 1]]

abs(v) == IF v < 0 THEN -v ELSE v

max(a, b) == IF a >= b THEN a ELSE b

---------------------------------------------------------------------------
(* cloud_uncertainty.py *)

\* _EPS = 1e-12 is below the hundredths in which Ex, En and He are kept: 0
\* stands for it, and a width of 0 is read as the epsilon floor
EPS == 0

\* math.exp(-((x - ex) ** 2) / (2.0 * (en_sample ** 2))): with en_sample at
\* the epsilon floor the quotient is 0 for x = ex, and otherwise so large
\* that exp underflows to 0.0
membership_degree(x, ex, en_sample) ==
    IF en_sample = EPS THEN (IF x = ex THEN One ELSE 0)
    ELSE math_exp_neg((x - ex) * (x - ex), 2 * en_sample * en_sample)

\* the loop of _simulate_membership after i draws; acc is a float
RECURSIVE simulate_loop(_, _, _, _, _, _, _)
simulate_loop(x, ex, en, he, n_sim, i, st) ==
    IF i >= n_sim THEN st
    ELSE LET drawn == gauss(st.rng, en, he)
             en_sample == max(abs(drawn.value), EPS)
         IN  simulate_loop(x, ex, en, he, n_sim, i + 1,
                [acc |-> fl(st.acc + membership_degree(x, ex, en_sample), 1),
                 rng |-> drawn.rng])

\* _simulate_membership: the mean membership degree and the generator after
simulate_membership(x, ex, en, he, n_sim, rng) ==
    LET done == simulate_loop(x, ex, max(en, EPS), max(he, 0), n_sim, 0,
                              [acc |-> 0, rng |-> rng])
    IN  [mu |-> fl(done.acc, n_sim), rng |-> done.rng]

\* an estimator that simulates the source dimension of every pair
calculate_uncertainty_full_cloud(po, cloud_params, n_sim, rng) ==
    LET p_time == cloud_params.time
        p_space == cloud_params.space
        p_source == cloud_params.membership
        time == simulate_membership(po.time_persistence, p_time.Ex, p_time.En, p_time.He,
                                    n_sim, rng)
        space == simulate_membership(po.space_consistency, p_space.Ex, p_space.En,
                                     p_space.He, n_sim, time.rng)
        source == simulate_membership(po.source_consistency, p_source.Ex, p_source.En,
                                      p_source.He, n_sim, space.rng)
        time_uncertainty == fl(One - time.mu, 1)
        space_uncertainty == fl(One - space.mu, 1)
        source_uncertainty == fl(One - source.mu, 1)
    IN  [time_uncertainty |-> time_uncertainty,
         space_uncertainty |-> space_uncertainty,
         source_uncertainty |-> source_uncertainty,
         total_uncertainty |->
             fl(fl(fl(time_uncertainty + space_uncertainty, 1) + source_uncertainty, 1), 3),
         rng |-> source.rng]

\* calculate_uncertainty: the uncertainties of one PO pair as floats, and
\* the generator after the call
calculate_uncertainty(po, cloud_params, n_sim, rng) ==
    LET p_time == cloud_params.time
        p_space == cloud_params.space
        p_source == cloud_params.membership
        time == simulate_membership(po.time_persistence, p_time.Ex, p_time.En, p_time.He,
                                    n_sim, rng)
        space == simulate_membership(po.space_consistency, p_space.Ex, p_space.En,
                                     p_space.He, n_sim, time.rng)
        half_cloud == po.source_consistency >= p_source.Ex
        source == IF half_cloud THEN [mu |-> One, rng |-> space.rng]
                  ELSE simulate_membership(po.source_consistency, p_source.Ex, p_source.En,
                                           p_source.He, n_sim, space.rng)
        time_uncertainty == fl(One - time.mu, 1)
        space_uncertainty == fl(One - space.mu, 1)
        source_uncertainty == IF half_cloud THEN 0 ELSE fl(One - source.mu, 1)
    IN  [time_uncertainty |-> time_uncertainty,
         space_uncertainty |-> space_uncertainty,
         source_uncertainty |-> source_uncertainty,
         total_uncertainty |->
             fl(fl(fl(time_uncertainty + space_uncertainty, 1) + source_uncertainty, 1), 3),
         rng |-> source.rng]

---------------------------------------------------------------------------
(* step2_cloud_uncertainty.py *)

\* a loop that scores every pair on a generator of its own
RECURSIVE score_loop_substreams(_, _, _, _, _, _)
score_loop_substreams(po_pairs, cloud_params, n_sim, rng, i, scored) ==
    IF i > Len(po_pairs) THEN scored
    ELSE LET unc_info == calculate_uncertainty(po_pairs[i], cloud_params, n_sim,
                                               Random(rng.seed))
             item == [po |-> po_pairs[i], unc_info |-> unc_info,
                      time_uncertainty |-> round_6(unc_info.time_uncertainty),
                      space_uncertainty |-> round_6(unc_info.space_uncertainty),
                      source_uncertainty |-> round_6(unc_info.source_uncertainty),
                      total_uncertainty |-> round_6(unc_info.total_uncertainty),
                      confidence |-> round_6(fl(One - unc_info.total_uncertainty, 1))]
         IN  score_loop_substreams(po_pairs, cloud_params, n_sim, rng, i + 1,
                                   Append(scored, item))

\* the loop of compute_uncertainty_for_trie from pair i on: every pair is
\* scored on the one generator, the figures are rounded for the export;
\* unc_info keeps what calculate_uncertainty returned for the pair
RECURSIVE score_loop(_, _, _, _, _, _)
score_loop(po_pairs, cloud_params, n_sim, rng, i, scored) ==
    IF i > Len(po_pairs) THEN scored
    ELSE LET unc_info == calculate_uncertainty(po_pairs[i], cloud_params, n_sim, rng)
             item == [po |-> po_pairs[i], unc_info |-> unc_info,
                      time_uncertainty |-> round_6(unc_info.time_uncertainty),
                      space_uncertainty |-> round_6(unc_info.space_uncertainty),
                      source_uncertainty |-> round_6(unc_info.source_uncertainty),
                      total_uncertainty |-> round_6(unc_info.total_uncertainty),
                      confidence |-> round_6(fl(One - unc_info.total_uncertainty, 1))]
         IN  score_loop(po_pairs, cloud_params, n_sim, unc_info.rng, i + 1,
                        Append(scored, item))

\* compute_uncertainty_for_trie on the PO pairs of the trie, with the cloud
\* parameters that compute_cloud_params fitted
compute_uncertainty_for_trie(po_pairs, cloud_params, n_sim, seed) ==
    score_loop(po_pairs, cloud_params, n_sim, Random(seed), 1, <<>>)

---------------------------------------------------------------------------
(* The Decision Trie runs *)

Init ==
    /\ dt_root = DetectTrie_init.root
    /\ conflict_log = DetectTrie_init.conflict_log
    /\ dt_calls = <<>>
    /\ dt_scores = <<>>
    /\ dt_inserted = 0
    /\ dt_verdict = <<>>
    /\ ip_root = IPTrie_init
    /\ ip_log = <<>>
    /\ ing_rows = <<>>
    /\ ing_total = 0
    /\ ing_pairs = "none"
    /\ rd_sources = <<>>
    /\ rd_status = "none"
    /\ det_updates = <<>>
    /\ det_lines = <<>>
    /\ det_hijack_events = <<>>
    /\ sc_run = <<>>
    /\ sc_scored = <<>>
    /\ dt_file = <<>>
    /\ dt_saved = <<>>
    /\ ld_trie = <<>>

\* step 3: the whole build, on a new trie, from one scores list
Build ==
    /\ dt_scores = <<>>
    /\ \E scores \in SeqsUpTo(ScoreItems, MaxScores) \ {<<>>} :
          LET built == build_detecttrie_from_scores(scores, Threshold)
          IN  /\ dt_root' = built.dt.root
              /\ conflict_log' = built.dt.conflict_log
              /\ dt_calls' = built.calls
              /\ dt_inserted' = built.inserted
              /\ dt_scores' = scores
    /\ dt_verdict' = <<>>
    /\ UNCHANGED <<ip_vars, ing_vars, run_vars>>

\* a direct DetectTrie.insert call (batch_insert makes one per pair)
Insert ==
    /\ Len(dt_calls) < MaxInserts
    /\ \E binary_prefix \in Paths, source_as \in Asns :
          LET dt == DetectTrie_insert([root |-> dt_root, conflict_log |-> conflict_log],
                                      binary_prefix, source_as)
          IN  /\ dt_root' = dt.root
              /\ conflict_log' = dt.conflict_log
              /\ dt_calls' = Append(dt_calls, <<binary_prefix, source_as>>)
    /\ dt_verdict' = <<>>
    /\ UNCHANGED <<dt_scores, dt_inserted>>
    /\ UNCHANGED <<ip_vars, ing_vars, run_vars>>

\* one iteration of the loop of step 4's main over the updates
Classify ==
    /\ \E u \in Updates :
          dt_verdict' = <<[update |-> u,
                           status |-> classify_update(dt_root, u.prefix, u.origin)]>>
    /\ UNCHANGED <<dt_root, conflict_log, dt_calls, dt_scores, dt_inserted>>
    /\ UNCHANGED <<ip_vars, ing_vars, run_vars>>

\* direct use of a DetectTrie: inserts and classifications
Next == Insert \/ Classify

Spec == Init /\ [][Next]_vars

\* steps 3 and 4: a trie built from scores, then classifications
NextBuild == Build \/ Classify

SpecBuild == Init /\ [][NextBuild]_vars

\* step 4's main on the trie step 3 built: every update of the list, then
\* the hijack_events line
Detect ==
    /\ dt_scores # <<>>
    /\ det_hijack_events = <<>>
    /\ \E updates \in SeqsUpTo(DetectUpdates, MaxUpdates) :
          LET out == detect_loop(dt_root, updates, 1, [lines |-> <<>>, hijacks |-> <<>>])
          IN  /\ det_updates' = updates
              /\ det_lines' = out.lines
              /\ det_hijack_events' = <<Len(out.hijacks)>>
    /\ UNCHANGED <<dt_vars, ip_vars, ing_vars, rd_vars, sc_vars, pst_vars>>

\* steps 3 and 4: a trie built from scores, then one classifier run
NextDetect == Build \/ Detect

SpecDetect == Init /\ [][NextDetect]_vars

\* step 3's main saves the trie it has
Save ==
    /\ dt_file = <<>>
    /\ dt_file' = DetectTrie_save([root |-> dt_root, conflict_log |-> conflict_log])
    /\ dt_saved' = <<[root |-> dt_root, conflict_log |-> conflict_log]>>
    /\ UNCHANGED <<dt_vars, ip_vars, ing_vars, rd_vars, det_vars, sc_vars, ld_trie>>

\* step 4's main loads the trie from the file
Load ==
    /\ dt_file # <<>>
    /\ ld_trie = <<>>
    /\ ld_trie' = <<DetectTrie_load(dt_file)>>
    /\ UNCHANGED <<dt_vars, ip_vars, ing_vars, rd_vars, det_vars, sc_vars, dt_file, dt_saved>>

\* a DetectTrie that is filled, saved and loaded again
NextPersist == Insert \/ Save \/ Load

SpecPersist == Init /\ [][NextPersist]_vars

---------------------------------------------------------------------------
(* The Evidence Trie runs *)

\* one IPTrie.insert call with arguments from inputs
EvidenceInsert(inputs, most) ==
    /\ Len(ip_log) < most
    /\ \E a \in inputs :
          /\ ip_root' = IPTrie_insert(ip_root, a.ip_prefix, a.source_as, a.source,
                                      a.announced, a.date, a.peer_as)
          /\ ip_log' = Append(ip_log, a)
    /\ UNCHANGED <<dt_vars, ing_vars, run_vars>>

InsertEvidence == EvidenceInsert(EvidenceInputs, MaxEvidence)

NextEvidence == InsertEvidence

SpecEvidence == Init /\ [][NextEvidence]_vars

InsertDated == EvidenceInsert(DatedInputs, MaxDated)

NextDays == InsertDated

SpecDays == Init /\ [][NextDays]_vars

InsertSource == EvidenceInsert(SourceInputs, MaxSources)

NextSources == InsertSource

SpecSources == Init /\ [][NextSources]_vars

---------------------------------------------------------------------------
(* The ingestion runs of step 1 *)

\* load_single_rib_file: the rows of one live-table file into a new trie
BuildFromRibs ==
    /\ ing_rows = <<>>
    /\ ip_log = <<>>
    /\ \E rows \in SeqsUpTo(RibRows, MaxRows) \ {<<>>}, date_from_file \in {<<>>, <<739068>>} :
          LET built == build_trie_from_ribs(rows, date_from_file, IPTrie_init)
          IN  /\ ip_root' = built.trie
              /\ ip_log' = built.calls
              /\ ing_total' = built.total_prefixes
              /\ ing_rows' = rows
    /\ ing_pairs' = "none"
    /\ UNCHANGED <<dt_vars, run_vars>>

\* step 1's main counts the PO pairs of the trie it built
Extract ==
    /\ ing_pairs = "none"
    /\ ing_pairs' = IF collect_po_pairs(ip_root).ok THEN "completed" ELSE "ValueError"
    /\ UNCHANGED <<dt_vars, ip_vars, ing_rows, ing_total, run_vars>>

NextIngest == BuildFromRibs \/ Extract

SpecIngest == Init /\ [][NextIngest]_vars

---------------------------------------------------------------------------
(* The run of build_iptrie_from_real_data *)

\* one call of build_iptrie_from_real_data; when it raises, the caller gets
\* no trie and ip_root stays what it was
BuildFromRealData ==
    /\ rd_status = "none"
    /\ ip_log = <<>>
    /\ \E sources \in RealData :
          \E order \in Orders(irr_po_pairs(sources.irr_dir.files)) :
             LET built == build_iptrie_from_real_data(sources, order)
             IN  /\ rd_sources' = <<sources>>
                 /\ rd_status' = IF built.raised THEN "raised" ELSE "returned"
                 /\ ip_root' = IF built.raised THEN ip_root ELSE built.trie
                 /\ ip_log' = built.calls
    /\ UNCHANGED <<dt_vars, ing_vars, det_vars, sc_vars, pst_vars>>

NextRealData == BuildFromRealData

SpecRealData == Init /\ [][NextRealData]_vars

---------------------------------------------------------------------------
(* The scoring runs of step 2 *)

\* one call of compute_uncertainty_for_trie
Score ==
    /\ sc_run = <<>>
    /\ \E po_pairs \in SeqsUpTo(PoPairs, MaxPairs) \ {<<>>}, cloud_params \in CloudParams,
          n_sim \in 1 .. MaxSim, seed \in Seeds :
          /\ sc_run' = <<[po_pairs |-> po_pairs, cloud_params |-> cloud_params,
                          n_sim |-> n_sim, seed |-> seed]>>
          /\ sc_scored' = compute_uncertainty_for_trie(po_pairs, cloud_params, n_sim, seed)
    /\ UNCHANGED <<dt_vars, ip_vars, ing_vars, rd_vars, det_vars, pst_vars>>

NextScore == Score

SpecScore == Init /\ [][NextScore]_vars

---------------------------------------------------------------------------
(* Properties of the Decision Trie *)

\* the origins given to the insert calls made at prefix p, in call order
CallsAt(p) == SelectSeq(dt_calls, LAMBDA c : c[1] = p)

OriginsAt(p) == {CallsAt(p)[i][2] : i \in 1 .. Len(CallsAt(p))}

\* the legal origin set of prefix p (empty when the node was never created)
LegalOrigins(root, p) == IF p \in DOMAIN root THEN root[p] ELSE {}

\* C1: first writer wins.  After any sequence of insert calls the legal
\* origin set of every prefix p is empty when no insert ended at p and
\* otherwise holds exactly the first origin inserted at p, so it never has
\* more than one member.
C1_FirstWriterWins ==
    \A p \in Paths :
        /\ IF Len(CallsAt(p)) = 0
           THEN LegalOrigins(dt_root, p) = {}
           ELSE p \in DOMAIN dt_root /\ dt_root[p] = {CallsAt(p)[1][2]}
        /\ Cardinality(LegalOrigins(dt_root, p)) <= 1

\* a second, different origin was inserted at a prefix that had a legal one
C1_Witness ==
    \E p \in Paths :
        /\ Len(CallsAt(p)) >= 2
        /\ CallsAt(p)[2][2] # CallsAt(p)[1][2]
        /\ dt_root[p] = {CallsAt(p)[1][2]}

LogEntry(log, p) == IF p \in DOMAIN log THEN log[p] ELSE {}

\* the entry of every prefix is non-empty exactly when two distinct origins
\* were inserted at it, and then holds all the origins inserted at it
C2_LogHoldsAllOrigins ==
    \A p \in Paths :
        IF Cardinality(OriginsAt(p)) >= 2
        THEN LogEntry(conflict_log, p) = OriginsAt(p)
        ELSE LogEntry(conflict_log, p) = {}

\* one insert call: a conflicting origin puts the existing legal origins and
\* itself in the entry of the prefix, any other insert leaves the log alone
C2_InsertStep ==
    Len(dt_calls') = Len(dt_calls) + 1 =>
        LET p == dt_calls'[Len(dt_calls')][1]
            a == dt_calls'[Len(dt_calls')][2]
            existing == LegalOrigins(dt_root, p)
        IN  IF existing # {} /\ a \notin existing
            THEN (existing \cup {a}) \subseteq LogEntry(conflict_log', p)
            ELSE conflict_log' = conflict_log

\* C2: conflict log.  An insert of origin a at prefix p whose legal origin
\* set is non-empty and lacks a leaves every existing legal origin and a in
\* the log entry of p; any other insert leaves the log unchanged.  So the
\* entry of p is non-empty exactly when at least two distinct origins were
\* inserted at p, and then it holds all of them.
C2_ConflictLog == [](C2_LogHoldsAllOrigins) /\ [][C2_InsertStep]_vars

\* two different origins were inserted at a prefix and both are in its entry
C2_Witness ==
    \E p \in Paths :
        /\ Len(CallsAt(p)) >= 2
        /\ CallsAt(p)[1][2] # CallsAt(p)[2][2]
        /\ LogEntry(conflict_log, p) = {CallsAt(p)[1][2], CallsAt(p)[2][2]}

\* an update the classifier can read: a parsable prefix, a numeric origin
WellFormed(u) == u.prefix.valid /\ int_of(u.origin).ok

\* the verdict the classification rule gives for update u on trie root
Verdict(root, u) ==
    LET p == ip_prefix_to_bits(u.prefix).bits
    IN  IF (\E q \in PathTo(p) : q \notin DOMAIN root) \/ root[p] = {}
        THEN "unknown_prefix"
        ELSE IF int_of(u.origin).val \in root[p] THEN "legit" ELSE "hijack"

C3_VerdictRule ==
    (dt_verdict # <<>> /\ WellFormed(dt_verdict[1].update)) =>
        dt_verdict[1].status = Verdict(dt_root, dt_verdict[1].update)

\* a classification leaves the trie as it was, and gives an update the same
\* verdict as the classification before it did
C3_ClassifyStep ==
    (dt_verdict' # <<>> /\ dt_calls' = dt_calls) =>
        /\ dt_root' = dt_root
        /\ conflict_log' = conflict_log
        /\ (dt_verdict # <<>> /\ dt_verdict'[1].update = dt_verdict[1].update)
              => dt_verdict'[1].status = dt_verdict[1].status

\* C3: classify(prefix, announcedOrigin), for a parsable prefix and a numeric
\* origin, is unknown_prefix when the bit path of the prefix is missing or
\* ends at a node with an empty legal origin set, legit when the origin is in
\* that node's set and hijack otherwise; it does not modify the trie, so a
\* repeated call gives the same verdict.
C3_Classify == [](C3_VerdictRule) /\ [][C3_ClassifyStep]_vars

\* a hijack verdict for a prefix at which a conflict was logged
C3_Witness ==
    /\ dt_verdict # <<>>
    /\ dt_verdict[1].status = "hijack"
    /\ WellFormed(dt_verdict[1].update)
    /\ LogEntry(conflict_log, ip_prefix_to_bits(dt_verdict[1].update.prefix).bits) # {}

\* bit string q is strictly more specific than p and lies inside it
StrictlyInside(q, p) == Len(q) > Len(p) /\ SubSeq(q, 1, Len(p)) = p

\* the prefixes given to the insert calls made so far
InsertedPrefixes == {dt_calls[i][1] : i \in 1 .. Len(dt_calls)}

\* prefix q was never inserted, and a prefix that covers it or that it
\* covers has a legal origin
NearAuthorised(q) ==
    /\ q \notin InsertedPrefixes
    /\ \E p \in Paths :
          /\ LegalOrigins(dt_root, p) # {}
          /\ StrictlyInside(q, p) \/ StrictlyInside(p, q)

\* C17: classification is exact-match on the bit string of the prefix.
\* When prefix p has a legal origin and q, never inserted itself, is
\* strictly more specific inside p or a strictly shorter prefix covering p,
\* classify_update(q, any origin) is unknown_prefix, never hijack or legit.
C17_ExactMatch ==
    \A u \in Updates :
       (u.prefix.valid /\ NearAuthorised(ip_prefix_to_bits(u.prefix).bits))
          => classify_update(dt_root, u.prefix, u.origin) = "unknown_prefix"

\* the last classification was of a more specific prefix inside an
\* authorised one, announced by the authorised origin itself
C17_Witness ==
    /\ dt_verdict # <<>>
    /\ dt_verdict[1].update.prefix.valid
    /\ dt_verdict[1].status = "unknown_prefix"
    /\ LET q == ip_prefix_to_bits(dt_verdict[1].update.prefix).bits
       IN  /\ q \notin InsertedPrefixes
           /\ \E p \in Paths :
                 /\ StrictlyInside(q, p)
                 /\ int_of(dt_verdict[1].update.origin).ok
                 /\ int_of(dt_verdict[1].update.origin).val \in LegalOrigins(dt_root, p)

\* C18: save then load keeps the legal origin set of every prefix, so
\* every classification gives the same verdict on the loaded trie as on the
\* saved one, and loses the conflict log: only the node tree is in the
\* file, and the loaded trie's conflict log is empty whatever conflicts the
\* saved trie had recorded.
C18_SaveLoad ==
    ld_trie # <<>> =>
        /\ \A p \in Paths :
              LegalOrigins(ld_trie[1].root, p) = LegalOrigins(dt_saved[1].root, p)
        /\ \A u \in Updates :
              classify_update(ld_trie[1].root, u.prefix, u.origin)
                 = classify_update(dt_saved[1].root, u.prefix, u.origin)
        /\ DOMAIN ld_trie[1].conflict_log = {}

\* a loaded trie with a legal origin at a prefix of one bit or more, whose
\* saved original had a conflict recorded
C18_Witness ==
    /\ ld_trie # <<>>
    /\ DOMAIN dt_saved[1].conflict_log # {}
    /\ DOMAIN ld_trie[1].conflict_log = {}
    /\ \E p \in Paths : Len(p) >= 1 /\ LegalOrigins(ld_trie[1].root, p) # {}

Passing(item) == item.confidence >= Threshold

PairOf(item) == <<item.prefix_bits, item.origin>>

RECURSIVE InsertAll(_, _, _)
InsertAll(dt, items, i) ==
    IF i > Len(items) THEN dt
    ELSE InsertAll(DetectTrie_insert(dt, items[i].prefix_bits, items[i].origin), items, i + 1)

\* the pair (p, a) has a score below the threshold and none at or above it
BelowThreshold(p, a) ==
    /\ \E i \in 1 .. Len(dt_scores) : PairOf(dt_scores[i]) = <<p, a>> /\ ~Passing(dt_scores[i])
    /\ \A i \in 1 .. Len(dt_scores) : PairOf(dt_scores[i]) = <<p, a>> => ~Passing(dt_scores[i])

\* C4: build_detecttrie_from_scores inserts exactly the scored pairs whose
\* confidence is >= the threshold, in the order of the list, and none below
\* it; so a pair below the threshold classifies as unknown_prefix when no
\* origin was inserted for its prefix and as hijack when a different origin
\* was authorised for it.
C4_BuildInsertsPassing ==
    dt_scores # <<>> =>
        LET passing == SelectSeq(dt_scores, Passing)
            dt == InsertAll(DetectTrie_init, passing, 1)
        IN  /\ dt_calls = [i \in 1 .. Len(passing) |-> PairOf(passing[i])]
            /\ dt_inserted = Len(passing)
            /\ dt_root = dt.root
            /\ conflict_log = dt.conflict_log
            /\ (dt_verdict # <<>> /\ WellFormed(dt_verdict[1].update)) =>
                  LET p == ip_prefix_to_bits(dt_verdict[1].update.prefix).bits
                      a == int_of(dt_verdict[1].update.origin).val
                      authorised == {passing[i].origin :
                                        i \in {j \in 1 .. Len(passing) : passing[j].prefix_bits = p}}
                  IN  BelowThreshold(p, a) =>
                          /\ authorised = {} => dt_verdict[1].status = "unknown_prefix"
                          /\ authorised # {} => dt_verdict[1].status = "hijack"

\* a pair scored below the threshold is classified as a hijack because a
\* different origin passed the threshold for its prefix
C4_Witness ==
    /\ dt_scores # <<>>
    /\ dt_verdict # <<>>
    /\ WellFormed(dt_verdict[1].update)
    /\ BelowThreshold(ip_prefix_to_bits(dt_verdict[1].update.prefix).bits,
                      int_of(dt_verdict[1].update.origin).val)
    /\ dt_verdict[1].status = "hijack"

\* the status lines of a classifier run that are hijack verdicts
HijackLines == {i \in 1 .. Len(det_lines) : det_lines[i] = "hijack"}

\* C12 as stated: every input of the classifier run gets one verdict from
\* legit, hijack and unknown_prefix, and the hijack_events total is the
\* number of inputs whose verdict is hijack.
C12_OneVerdictEach ==
    det_hijack_events # <<>> =>
        /\ Len(det_lines) = Len(det_updates)
        /\ \A i \in 1 .. Len(det_lines) :
              det_lines[i] \in {"legit", "hijack", "unknown_prefix"}
        /\ det_hijack_events[1] = Cardinality(HijackLines)

\* an update on which classify_update raises: its prefix does not parse, or
\* its prefix has a legal origin set and its origin is not numeric
Unreadable(root, u) ==
    \/ ~u.prefix.valid
    \/ /\ LegalOrigins(root, ip_prefix_to_bits(u.prefix).bits) # {}
       /\ ~int_of(u.origin).ok

\* C12, amended: every input of the classifier run gets exactly one status
\* line, in input order.  The line is the verdict of the classification
\* rule (legit, hijack or unknown_prefix) unless the prefix does not parse or
\* the origin of a known prefix is not numeric; such an input gets an error
\* line and no verdict, and the run goes on.  The hijack_events total is
\* the number of hijack lines.
C12_VerdictOrError ==
    det_hijack_events # <<>> =>
        /\ Len(det_lines) = Len(det_updates)
        /\ \A i \in 1 .. Len(det_updates) :
              det_lines[i] = IF Unreadable(dt_root, det_updates[i]) THEN "error"
                             ELSE Verdict(dt_root, det_updates[i])
        /\ det_hijack_events[1] = Cardinality(HijackLines)

\* a run whose first input gets an error line and whose second is a hijack
C12_Witness ==
    /\ det_hijack_events = <<1>>
    /\ det_lines = <<"error", "hijack">>

---------------------------------------------------------------------------
(* Properties of the Evidence Trie *)

\* sources[origin][kind][day] of the node at p, 0 where nothing was stored
SourceCell(root, p, o, k, d) ==
    IF p \in DOMAIN root /\ o \in DOMAIN root[p].sources /\ k \in DOMAIN root[p].sources[o]
    THEN root[p].sources[o][k][d + 1]
    ELSE 0

\* peers[origin][peer][day] of the node at p, 0 where nothing was stored
PeerCell(root, p, o, r, d) ==
    IF p \in DOMAIN root /\ o \in DOMAIN root[p].peers /\ r \in DOMAIN root[p].peers[o]
    THEN root[p].peers[o][r][d + 1]
    ELSE 0

\* the rolling day index of a date: 0 when the date is absent
RollingDay(date) == IF date = <<>> THEN 0 ELSE (date[1] - 739068) % 5

LoggedPrefixes == {ip_log[i].ip_prefix : i \in 1 .. Len(ip_log)}

LoggedOrigins == {ip_log[i].source_as : i \in 1 .. Len(ip_log)}

LoggedKinds == {ip_log[i].source : i \in 1 .. Len(ip_log)}

LoggedPeers == {ip_log[i].peer_as : i \in 1 .. Len(ip_log)}

\* the nodes a run can create
LoggedNodes == UNION {PathTo(p) : p \in LoggedPrefixes}

C5_InsertStep ==
    Len(ip_log') = Len(ip_log) + 1 =>
        LET a == ip_log'[Len(ip_log')]
            day == RollingDay(a.date)
            nodes == {q \in BitStrings(MaxQueryLen) : q \in DOMAIN ip_root'}
                        \cup PathTo(a.ip_prefix)
            origins == LoggedOrigins'
            kinds == LoggedKinds'
            peers == LoggedPeers' \ {""}
        IN  /\ a.ip_prefix \in DOMAIN ip_root'
            /\ ip_root'[a.ip_prefix].is_end_of_prefix
            /\ SourceCell(ip_root', a.ip_prefix, a.source_as, a.source, day)
                  = IF a.announced THEN 1 ELSE 0
            /\ a.peer_as # "" =>
                  PeerCell(ip_root', a.ip_prefix, a.source_as, a.peer_as, day) = 1
            /\ a.peer_as = "" =>
                  ip_root'[a.ip_prefix].peers =
                      IF a.ip_prefix \in DOMAIN ip_root
                      THEN ip_root[a.ip_prefix].peers ELSE EmptyDict
            /\ \A q \in nodes, o \in origins, d \in 0 .. 4 :
                  /\ \A k \in kinds :
                        <<q, o, k, d>> # <<a.ip_prefix, a.source_as, a.source, day>> =>
                            SourceCell(ip_root', q, o, k, d) = SourceCell(ip_root, q, o, k, d)
                  /\ \A r \in peers :
                        <<q, o, r, d>> # <<a.ip_prefix, a.source_as, a.peer_as, day>> =>
                            PeerCell(ip_root', q, o, r, d) = PeerCell(ip_root, q, o, r, d)

\* C5: IPTrie.insert marks the node at the prefix bits terminal, sets
\* sources[origin][kind][day] to 1 if announced else 0 for the rolling day of
\* the date (0 when the date is absent), sets peers[origin][peer][day] to 1
\* only when a peer is given, and leaves every other bitmap cell of that node
\* and of every other node unchanged.
C5_InsertFrame == [][C5_InsertStep]_vars

\* the second insert withdrew a kind on one day next to a cell and a peer
\* cell that the first insert had set
C5_Witness ==
    /\ Len(ip_log) = 2
    /\ ip_log[1].ip_prefix = ip_log[2].ip_prefix
    /\ ip_log[1].source_as = ip_log[2].source_as
    /\ ip_log[1].announced /\ ~ip_log[2].announced
    /\ ip_log[1].peer_as # "" /\ ip_log[2].peer_as = ""
    /\ RollingDay(ip_log[1].date) # RollingDay(ip_log[2].date)
    /\ SourceCell(ip_root, ip_log[1].ip_prefix, ip_log[1].source_as, ip_log[1].source,
                  RollingDay(ip_log[1].date)) = 1
    /\ PeerCell(ip_root, ip_log[1].ip_prefix, ip_log[1].source_as, ip_log[1].peer_as,
                RollingDay(ip_log[1].date)) = 1

\* C6: after any sequence of IPTrie.insert calls, search(p) returns a result
\* other than None if and only if some insert was made with prefix bits
\* exactly p: None for a missing path and for an unmarked interior node.
C6_SearchFindsInserted ==
    \A p \in BitStrings(MaxQueryLen) :
        IPTrie_search(ip_root, p).found <=> p \in LoggedPrefixes

\* only a longer key was inserted: its strict prefix is a node of the trie
\* that search does not return, next to a path that is missing
C6_Witness ==
    /\ LoggedPrefixes = {<<"1", "0">>}
    /\ <<"1">> \in DOMAIN ip_root
    /\ ~IPTrie_search(ip_root, <<"1">>).found
    /\ <<"0">> \notin DOMAIN ip_root
    /\ IPTrie_search(ip_root, <<"1", "0">>).found

C7_RepeatStep ==
    (/\ Len(ip_log') = Len(ip_log) + 1
     /\ Len(ip_log) >= 1
     /\ ip_log'[Len(ip_log')] = ip_log[Len(ip_log)]) =>
        /\ ip_root' = ip_root
        /\ collect_po_pairs(ip_root') = collect_po_pairs(ip_root)

\* C7: idempotent insert.  In any Evidence Trie state, the same IPTrie.insert
\* applied a second time right after the first leaves the trie state, and so
\* every PO-pair metric of collect_po_pairs, unchanged.
C7_IdempotentInsert == [][C7_RepeatStep]_vars

\* the same announced observation, with a peer, was inserted twice in a row
C7_Witness ==
    /\ Len(ip_log) = 2
    /\ ip_log[1] = ip_log[2]
    /\ ip_log[1].announced
    /\ ip_log[1].peer_as # ""
    /\ collect_po_pairs(ip_root).ok
    /\ Len(collect_po_pairs(ip_root).po_list) = 1

\* the inserts made for (p, o, k), in call order
ObservationsOf(p, o, k) ==
    SelectSeq(ip_log, LAMBDA a : a.ip_prefix = p /\ a.source_as = o /\ a.source = k)

\* the last of obs written on rolling day d, as a sequence of at most one
LastOn(obs, d) ==
    LET on == SelectSeq(obs, LAMBDA a : RollingDay(a.date) = d)
    IN  IF on = <<>> THEN <<>> ELSE <<on[Len(on)]>>

\* all of obs are announced, and their dates differ by multiples of 5 days
Aliased(obs) ==
    /\ obs # <<>>
    /\ \A i \in 1 .. Len(obs) : obs[i].announced /\ obs[i].date # <<>>
    /\ \A i, j \in 1 .. Len(obs) : (obs[i].date[1] - obs[j].date[1]) % 5 = 0

\* the days on which kind k of (p, o) is counted
DaysSet(p, o, k) == {d \in 0 .. 4 : SourceCell(ip_root, p, o, k, d) = 1}

\* C8: day aliasing.  The day slot of an observation is (date - 2024-07-01)
\* in days modulo 5, in 0..4 also for dates before the epoch: every cell holds
\* what the last observation on its rolling day announced.  Inserts for the
\* same prefix, origin and kind whose dates differ by a multiple of 5 days
\* write one slot, so when all are announced the kind is counted in exactly
\* one slot of the extracted time vector.
C8_DayAliasing ==
    \A p \in LoggedPrefixes, o \in LoggedOrigins, k \in LoggedKinds :
        LET obs == ObservationsOf(p, o, k)
        IN  /\ \A i \in 1 .. Len(obs) : RollingDay(obs[i].date) \in 0 .. 4
            /\ \A d \in 0 .. 4 :
                  SourceCell(ip_root, p, o, k, d) =
                      IF LastOn(obs, d) = <<>> THEN 0
                      ELSE IF LastOn(obs, d)[1].announced THEN 1 ELSE 0
            /\ Aliased(obs) =>
                  /\ DaysSet(p, o, k) = {RollingDay(obs[1].date)}
                  /\ LoggedKinds = {k} =>
                        LET po == collect_po_pairs(ip_root).po_list[1]
                        IN  /\ po.time_vectors[RollingDay(obs[1].date) + 1] = 1
                            /\ SumOver(1 .. 5, po.time_vectors) = 1

\* three announced observations of one kind, 5 and 10 days apart, counted on
\* one day; and one dated before the epoch
C8_Witness ==
    /\ Len(ip_log) = 3
    /\ Aliased(ip_log)
    /\ LoggedKinds = {"RIB"}
    /\ ip_log[1].date # ip_log[2].date
    /\ ip_log[2].date # ip_log[3].date
    /\ ip_log[1].date # ip_log[3].date
    /\ collect_po_pairs(ip_root).po_list[1].time_vectors = <<1, 0, 0, 0, 0>>

\* the kinds observed for prefix p and the origin with number asn
KindsObserved(p, asn) ==
    {ip_log[i].source : i \in {j \in 1 .. Len(ip_log) :
        ip_log[j].ip_prefix = p /\ int_of(ip_log[j].source_as).val = asn}}

\* the weight of a source kind, in hundredths
KindWeight(k) == IF k = "RIB" THEN 26 ELSE IF k = "IRR" THEN 36 ELSE IF k = "RPKI" THEN 38 ELSE 0

\* sourceConsistency of the pair (p, o) in root, 0 when it is not extracted
ConsistencyOf(root, p, o) ==
    LET pairs == collect_po_pairs(root).po_list
        at == {i \in 1 .. Len(pairs) : pairs[i].prefix_bits = p
                                         /\ pairs[i].origin = int_of(o).val}
    IN  IF at = {} THEN 0 ELSE pairs[CHOOSE i \in at : TRUE].source_consistency

C9_Metrics ==
    /\ collect_po_pairs(ip_root).ok
    /\ \A i \in 1 .. Len(collect_po_pairs(ip_root).po_list) :
          LET po == collect_po_pairs(ip_root).po_list[i]
              kinds == KindsObserved(po.prefix_bits, po.origin)
          IN  /\ po.source_consistency = SumOver(kinds, [k \in kinds |-> KindWeight(k)])
              /\ kinds = {"RIB", "IRR", "RPKI"} => po.source_consistency = 100
              /\ po.has_rib <=>
                    \E o \in LoggedOrigins, d \in 0 .. 4 :
                        /\ int_of(o).val = po.origin
                        /\ SourceCell(ip_root, po.prefix_bits, o, "RIB", d) = 1

\* evidence from a kind not yet observed for a pair raises its consistency
C9_NewKindStep ==
    Len(ip_log') = Len(ip_log) + 1 =>
        LET a == ip_log'[Len(ip_log')]
        IN  a.source \notin KindsObserved(a.ip_prefix, int_of(a.source_as).val) =>
                ConsistencyOf(ip_root', a.ip_prefix, a.source_as)
                    > ConsistencyOf(ip_root, a.ip_prefix, a.source_as)

\* C9: for every extracted PO pair, sourceConsistency is the sum of the
\* fixed weights (live-table 0.26, registry 0.36, attestation 0.38) over the
\* distinct kinds observed for the pair, so a further kind strictly increases
\* it and all three give 1.00; hasLiveTableEvidence is true iff the
\* live-table bit is set on at least one of the 5 day slots.
C9_SourceConsistency == [](C9_Metrics) /\ [][C9_NewKindStep]_vars

\* a pair observed by all three kinds, and a live-table observation that
\* was not announced
C9_Witness ==
    \E i \in 1 .. Len(collect_po_pairs(ip_root).po_list) :
        LET po == collect_po_pairs(ip_root).po_list[i]
        IN  /\ po.sources = {"RIB", "IRR", "RPKI"}
            /\ po.source_consistency = 100
            /\ ~po.has_rib

\* the trie after the insert calls of log on a new trie
RECURSIVE Replay(_)
Replay(log) ==
    IF log = <<>> THEN IPTrie_init
    ELSE LET a == log[Len(log)]
         IN  IPTrie_insert(Replay(SubSeq(log, 1, Len(log) - 1)), a.ip_prefix, a.source_as,
                           a.source, a.announced, a.date, a.peer_as)

\* the log with its last two calls in the other order
LastTwoSwapped(log) ==
    SubSeq(log, 1, Len(log) - 2) \o <<log[Len(log)], log[Len(log) - 1]>>

\* calls a and b write the same sources cell
SameCell(a, b) ==
    /\ a.ip_prefix = b.ip_prefix
    /\ a.source_as = b.source_as
    /\ a.source = b.source
    /\ RollingDay(a.date) = RollingDay(b.date)

\* every sources cell other than that of call a, and every peers cell, is
\* the same in the tries r1 and r2
SameCellsBut(r1, r2, a) ==
    /\ \A p \in LoggedNodes, o \in LoggedOrigins, k \in LoggedKinds, d \in 0 .. 4 :
          (p = a.ip_prefix /\ o = a.source_as /\ k = a.source /\ d = RollingDay(a.date))
             \/ SourceCell(r1, p, o, k, d) = SourceCell(r2, p, o, k, d)
    /\ \A p \in LoggedNodes, o \in LoggedOrigins, r \in LoggedPeers, d \in 0 .. 4 :
          PeerCell(r1, p, o, r, d) = PeerCell(r2, p, o, r, d)

\* the sources cell that call a writes, in trie r
CellOf(r, a) == SourceCell(r, a.ip_prefix, a.source_as, a.source, RollingDay(a.date))

\* C15 as stated: two IPTrie.insert calls applied in either order give the
\* same value in every sources and peers cell, also when both calls write
\* the same cell.
C15_Commutative ==
    Len(ip_log) >= 2 =>
        LET swapped == Replay(LastTwoSwapped(ip_log))
            b == ip_log[Len(ip_log)]
        IN  /\ SameCellsBut(ip_root, swapped, b)
            /\ CellOf(ip_root, b) = CellOf(swapped, b)

\* C15, amended: two IPTrie.insert calls applied in either order give the
\* same value in every peers cell and in every sources cell, except when
\* both calls write the same sources cell (same prefix, origin, kind and
\* rolling day) with different announced flags: that cell then holds the
\* flag of the call applied last, so the two orders differ in it.
C15_CommutativeButOverwrite ==
    Len(ip_log) >= 2 =>
        LET swapped == Replay(LastTwoSwapped(ip_log))
            a == ip_log[Len(ip_log) - 1]
            b == ip_log[Len(ip_log)]
        IN  /\ SameCellsBut(ip_root, swapped, b)
            /\ IF SameCell(a, b) /\ a.announced # b.announced
               THEN /\ CellOf(ip_root, b) = (IF b.announced THEN 1 ELSE 0)
                    /\ CellOf(swapped, b) = (IF a.announced THEN 1 ELSE 0)
               ELSE CellOf(ip_root, b) = CellOf(swapped, b)

\* an announcement and a withdrawal of the same cell: the order decides
C15_Witness ==
    /\ Len(ip_log) = 2
    /\ SameCell(ip_log[1], ip_log[2])
    /\ ip_log[1].announced /\ ~ip_log[2].announced
    /\ ip_log[1].peer_as # ip_log[2].peer_as
    /\ CellOf(ip_root, ip_log[2]) = 0
    /\ CellOf(Replay(LastTwoSwapped(ip_log)), ip_log[2]) = 1

---------------------------------------------------------------------------
(* Properties of the ingestion *)

\* the origin a row names: the last word of its as-path, if it has one
HasOrigin(row) == row.as_path # <<>> /\ row.as_path # <<"-">>

\* a row with a parsable IPv4 prefix and a numeric origin ASN
SoundRow(row) ==
    /\ HasOrigin(row)
    /\ row.prefix.valid /\ row.prefix.version = 4
    /\ int_of(normalize_asn(row.as_path[Len(row.as_path)])).ok

\* a row with an origin whose prefix is unparsable or whose ASN is not numeric
MalformedRow(row) ==
    /\ HasOrigin(row)
    /\ \/ ~row.prefix.valid
       \/ ~int_of(normalize_asn(row.as_path[Len(row.as_path)])).ok

\* C10: a malformed evidence record (unparsable prefix or non-numeric origin
\* ASN) is skipped with no partial insert, and processing continues with the
\* following records, so that PO-pair extraction over the built trie
\* completes: the insert calls made are those of the rows that are not
\* malformed, no key of the trie comes from a malformed row, and
\* collect_po_pairs does not fail.
C10_MalformedSkipped ==
    ing_rows # <<>> =>
        LET kept == SelectSeq(ing_rows, LAMBDA row : ~MalformedRow(row))
            skipped == SelectSeq(ing_rows, MalformedRow)
        IN  /\ Len(ip_log) <= Len(kept)
            /\ \A i \in 1 .. Len(ip_log) : int_of(ip_log[i].source_as).ok
            /\ \A i \in 1 .. Len(skipped), q \in DOMAIN ip_root :
                  normalize_asn(skipped[i].as_path[Len(skipped[i].as_path)])
                      \notin DOMAIN ip_root[q].sources
            /\ ing_pairs # "ValueError"

\* the part of C10 the code keeps: a row whose prefix is unparsable makes no
\* insert call, and the rows after it are processed
C10_UnparsablePrefixSkipped ==
    ing_rows # <<>> =>
        /\ Len(ip_log) = Len(SelectSeq(ing_rows,
               LAMBDA row : HasOrigin(row) /\ row.prefix.valid /\ row.prefix.version = 4))
        /\ ing_total = Len(ip_log)

---------------------------------------------------------------------------
(* Properties of the real-data build *)

\* the live-table file was read and decoded
RibSucceeded(file) ==
    file.given /\ file.exists /\ (file.gz => file.gunzips) /\ file.decodes

\* the live-table file is there and reading or decoding it fails
RibFailed(file) == file.given /\ file.exists /\ ~RibSucceeded(file)

RoaSucceeded(file) == file.date # <<>> /\ file.reads

RoaFailed(file) == file.date # <<>> /\ ~file.reads

IrrSucceeded(file) == file.is_file /\ file.opens /\ file.encoding_known

IrrFailed(file) == file.is_file /\ ~IrrSucceeded(file)

FilesOf(dir) ==
    IF dir.given /\ dir.exists THEN {dir.files[i] : i \in 1 .. Len(dir.files)} ELSE {}

\* processing of at least one source fails
SomeSourceFailed(sources) ==
    \/ RibFailed(sources.rib_file)
    \/ \E file \in FilesOf(sources.roa_dir) : RoaFailed(file)
    \/ \E file \in FilesOf(sources.irr_dir) : IrrFailed(file)

\* the cells that the sound records of the sources that succeeded stand for
SucceededEvidence(sources) ==
    (IF RibSucceeded(sources.rib_file)
     THEN {[p |-> packed_bits(RibFileRows[1].prefix), o |-> "65001", k |-> "RIB",
            d |-> RollingDay(RibFileDate)]}
     ELSE {})
    \cup {[p |-> packed_bits(file.rows[1].ip_prefix), o |-> "65002", k |-> "RPKI",
           d |-> RollingDay(file.date)] :
             file \in {f \in FilesOf(sources.roa_dir) :
                          RoaSucceeded(f) /\ f.rows # <<>> /\ f.rows[1].ip_prefix.valid}}
    \cup {[p |-> packed_bits(file.lines[1].prefix),
           o |-> IF file.lines[2].asn = "AS65001" THEN "65001" ELSE "65002",
           k |-> "IRR", d |-> 0] :
             file \in {f \in FilesOf(sources.irr_dir) : IrrSucceeded(f)}}

\* C11: partial-failure isolation.  When processing of one source fails
\* (the live-table file, an attestation file or a registry file),
\* build_iptrie_from_real_data does not abort: it returns a trie, and the
\* trie holds the evidence of every source that succeeded.
C11_PartialFailureIsolation ==
    (rd_status # "none" /\ SomeSourceFailed(rd_sources[1])) =>
        /\ rd_status = "returned"
        /\ \A c \in SucceededEvidence(rd_sources[1]) :
              SourceCell(ip_root, c.p, c.o, c.k, c.d) = 1

\* the failures that the code does isolate: a decoder failure on the
\* live-table file, an unreadable attestation file and a registry file of
\* an unknown encoding leave the call returning the other sources' evidence
C11_IsolatedFailures ==
    (/\ rd_status # "none"
     /\ ~(rd_sources[1].rib_file.gz /\ ~rd_sources[1].rib_file.gunzips)
     /\ \A file \in FilesOf(rd_sources[1].irr_dir) : file.is_file => file.opens) =>
        /\ rd_status = "returned"
        /\ \A c \in SucceededEvidence(rd_sources[1]) :
              SourceCell(ip_root, c.p, c.o, c.k, c.d) = 1

\* the call raises exactly when gzip cannot read the live-table file or,
\* with the earlier sources processed, a registry file cannot be opened
C11_AbortsOn ==
    rd_status # "none" =>
        (rd_status = "raised" <=>
            \/ rd_sources[1].rib_file.gz /\ ~rd_sources[1].rib_file.gunzips
            \/ \E file \in FilesOf(rd_sources[1].irr_dir) : file.is_file /\ ~file.opens)

---------------------------------------------------------------------------
(* Properties of the scoring *)

\* C13: half-cloud rule.  For every scored PO pair whose source consistency
\* is at least the Ex of the source dimension, the source uncertainty is
\* exactly 0, whatever En and He of the dimension and whatever the
\* generator yields.
C13_HalfCloud ==
    sc_run # <<>> =>
        \A i \in 1 .. Len(sc_scored) :
           sc_scored[i].po.source_consistency >= sc_run[1].cloud_params.membership.Ex
              => /\ sc_scored[i].unc_info.source_uncertainty = 0
                 /\ sc_scored[i].source_uncertainty = 0

\* a scored pair above Ex in a dimension of positive En and He, whose other
\* dimensions are uncertain
C13_Witness ==
    /\ sc_run # <<>>
    /\ sc_run[1].cloud_params.membership.En > 0
    /\ sc_run[1].cloud_params.membership.He > 0
    /\ \E i \in 1 .. Len(sc_scored) :
          /\ sc_scored[i].po.source_consistency > sc_run[1].cloud_params.membership.Ex
          /\ sc_scored[i].unc_info.source_uncertainty = 0
          /\ sc_scored[i].unc_info.time_uncertainty > 0

C14_WithinOneUnit ==
    \A i \in 1 .. Len(sc_scored) :
       /\ 0 <= sc_scored[i].total_uncertainty
       /\ sc_scored[i].total_uncertainty <= OneFigure
       /\ 0 <= sc_scored[i].confidence
       /\ sc_scored[i].confidence <= OneFigure
       /\ abs(sc_scored[i].confidence + sc_scored[i].total_uncertainty - OneFigure) <= 1

\* the exported scores of a scored item
Figures(item) ==
    <<item.time_uncertainty, item.space_uncertainty, item.source_uncertainty,
      item.total_uncertainty, item.confidence>>

\* the scores of pair po when it is scored on the generator of the seed
\* after calls gauss calls
ScoredAfter(po, run, calls) ==
    LET unc_info == calculate_uncertainty(po, run.cloud_params, run.n_sim,
                                          [seed |-> run.seed, calls |-> calls])
    IN  <<round_6(unc_info.time_uncertainty), round_6(unc_info.space_uncertainty),
          round_6(unc_info.source_uncertainty), round_6(unc_info.total_uncertainty),
          round_6(fl(One - unc_info.total_uncertainty, 1))>>

\* C16 as stated: for fixed cloud parameters, seed and simulation count the
\* scores of a PO pair do not depend on the other pairs of the batch nor on
\* its position: they are the scores the pair gets when scored alone.
C16_Independent ==
    sc_run # <<>> =>
        \A i \in 1 .. Len(sc_scored) :
           Figures(sc_scored[i]) = ScoredAfter(sc_run[1].po_pairs[i], sc_run[1], 0)

\* the gauss calls the scoring of pair po makes: n_sim for the time and for
\* the space dimension, and n_sim more unless the half-cloud rule applies
DrawsOf(po, run) ==
    run.n_sim * (IF po.source_consistency >= run.cloud_params.membership.Ex THEN 2 ELSE 3)

RECURSIVE DrawsBefore(_, _)
DrawsBefore(i, run) ==
    IF i = 1 THEN 0
    ELSE DrawsBefore(i - 1, run) + DrawsOf(run.po_pairs[i - 1], run)

\* C16, amended: for fixed cloud parameters, seed and simulation count the
\* scores of a PO pair depend on the batch only through the number of
\* draws the pairs scored before it took from the shared generator: they
\* are the scores the pair gets on the generator of the seed advanced by
\* that number, whatever pairs come after it.
C16_DependsOnDrawsBefore ==
    sc_run # <<>> =>
        \A i \in 1 .. Len(sc_scored) :
           Figures(sc_scored[i]) =
               ScoredAfter(sc_run[1].po_pairs[i], sc_run[1], DrawsBefore(i, sc_run[1]))

\* a pair scored second whose scores differ from those it gets alone
C16_Witness ==
    /\ sc_run # <<>>
    /\ Len(sc_scored) = 2
    /\ Figures(sc_scored[2]) # ScoredAfter(sc_run[1].po_pairs[2], sc_run[1], 0)
    /\ Figures(sc_scored[2]) =
          ScoredAfter(sc_run[1].po_pairs[2], sc_run[1], DrawsBefore(2, sc_run[1]))

===========================================================================
